---- MODULE Spec2Model ----
(***************************************************************************)
(* A model of baynext-ml: the four-stage pipeline (run_pipeline and        *)
(* Pipeline in src/src/baynext/pipeline.py), the resolution of             *)
(* PipelineConfig from its settings sources, the validation of             *)
(* TrainConfig and train_task, the Typer train command and the main.py     *)
(* entry point.  The external libraries (Meridian, MLflow, pydantic) are   *)
(* modelled by what the calls made here observe of them: a call returns    *)
(* or raises, and a logging call that returns has stored its artifact.     *)
(***************************************************************************)
EXTENDS Integers, Sequences, FiniteSets, TLC

VARIABLES
    \* run_pipeline and the Pipeline object
    config,             \* the resolved PipelineConfig (the log toggles)
    env,                \* the process environment read by run_pipeline / mlflow
    pc,                 \* position in run_pipeline
    data_,              \* Pipeline.data_
    model_,             \* Pipeline.model_
    step,               \* BaynextLogger.step
    records,            \* the records the logger emitted, in order
    artifacts,          \* what was logged to the tracking run, in order
    tracking_uri,       \* the URI given to mlflow.set_tracking_uri
    active_run,         \* "none", "active" or "ended"
    autolog_metrics,    \* the log_metrics argument autolog was called with
    system_metrics,     \* whether the run logs system metrics
    started,            \* the stage methods run has called, in order
    completed,          \* the stage methods that returned
    exc,                \* the exception propagating out of run_pipeline
    \* PipelineConfig resolution
    sources,            \* what each settings source holds, as a nested mapping
    resolved,           \* the outcome of PipelineConfig()
    populated,          \* how many values were put into the sources
    \* the Typer train command
    cli_args,           \* the option texts given on the command line
    cli_pc,             \* position in the command
    cli_out,            \* what the command printed, in order
    cli_exit,           \* <<>> while running, else <<exit code>>
    cli_call,           \* the call to the training pipeline, if made
    \* main of the training package
    training_pc,        \* position in main
    training_locals,    \* input_data, model_spec and meridian of main
    training_calls,     \* the task calls main made, in order
    training_exc,       \* the exception that left main, or "none"
    training_log,       \* the records main logged, in order
    \* the main.py entry point
    args,               \* the parsed command line
    main_pc,            \* position in the entry point
    pipeline_config,    \* the module-level name pipeline_config
    main_log,           \* the records the entry point logged
    main_environ,       \* os.environ entries the entry point set
    main_exit,          \* <<>> while running, else <<exit code>>
    pipeline_called,    \* whether pipeline(...) was called
    \* TrainConfig and train_task
    raw,                \* the values TrainConfig is built from
    train_pc,           \* position in validation and train_task
    model_spec,         \* the ModelSpec train_task built
    calls,              \* the sampling calls made on the model, in order
    \* load_task and log_dataset
    load_config,        \* the LoadConfig both are given
    loader_calls,       \* the data loader calls load_task made
    load_ret,           \* what load_task returned or raised
    dataset_calls,      \* the dataset logging calls log_dataset made
    log_dataset_ret,    \* what log_dataset returned or raised
    \* RoiMConfig and its prior distribution
    roi_m_raw,          \* the values RoiMConfig is built from
    prior_pc,           \* position in validation and to_tfp
    roi_m,              \* the distribution configuration RoiMConfig holds
    roi_m_prior,        \* the distribution to_tfp built
    \* the logging state of the training package (logger.py)
    logger_handlers,    \* the handlers of the shared 'training' logger, in order of attachment
    logger_level,       \* the level of the 'training' logger
    root_handlers,      \* the number of handlers the hosting process put on the root logger
    root_level,         \* the level of the root logger
    children,           \* the names get_logger has returned a child logger for
    get_calls,          \* the number of get_logger calls so far
    emitted             \* per record logged through a child, the handlers that emitted it

pipeVars == <<config, env, pc, data_, model_, step, records, artifacts,
              tracking_uri, active_run, autolog_metrics, system_metrics,
              started, completed, exc>>

cfgVars == <<sources, resolved, populated>>

cliVars == <<cli_args, cli_pc, cli_out, cli_exit, cli_call>>

mainVars == <<args, main_pc, pipeline_config, main_log, main_environ, main_exit,
              pipeline_called>>

trainVars == <<raw, train_pc, model_spec, calls>>

trainingVars == <<training_pc, training_locals, training_calls, training_exc,
                  training_log>>

loadVars == <<load_config, loader_calls, load_ret, dataset_calls, log_dataset_ret>>

priorVars == <<roi_m_raw, prior_pc, roi_m, roi_m_prior>>

loggerVars == <<logger_handlers, logger_level, root_handlers, root_level, children,
                get_calls, emitted>>

vars == <<pipeVars, cfgVars, cliVars, trainingVars, mainVars, trainVars, loadVars,
          priorVars, loggerVars>>

notPipe == <<cfgVars, cliVars, trainingVars, mainVars, trainVars, loadVars, priorVars,
             loggerVars>>
notCfg == <<pipeVars, cliVars, trainingVars, mainVars, trainVars, loadVars, priorVars,
            loggerVars>>
notCli == <<pipeVars, cfgVars, mainVars, trainVars, loadVars, priorVars, loggerVars>>
notMain == <<pipeVars, cfgVars, cliVars, trainingVars, trainVars, loadVars, priorVars,
             loggerVars>>
notTrain == <<pipeVars, cfgVars, cliVars, trainingVars, mainVars, loadVars, priorVars,
              loggerVars>>
notLoad == <<pipeVars, cfgVars, cliVars, trainingVars, mainVars, trainVars, priorVars,
             loggerVars>>
notPrior == <<pipeVars, cfgVars, cliVars, trainingVars, mainVars, trainVars, loadVars,
              loggerVars>>
notLogger == <<pipeVars, cfgVars, cliVars, trainingVars, mainVars, trainVars, loadVars,
               priorVars>>

None == "None"

Range(s) == {s[i] : i \in 1..Len(s)}

(***************************************************************************)
(* LogConfig: the four boolean toggles.                                    *)
(***************************************************************************)
LogConfig == [metrics : BOOLEAN, dataset : BOOLEAN, model : BOOLEAN,
              system_metrics : BOOLEAN]

PipelineConfig == [log : LogConfig]

\* What run_pipeline and mlflow.start_run read from the environment.
Environment == [MLFLOW_TRACKING_URI : {None, "http://tracking:5000"},
                MLFLOW_ENABLE_SYSTEM_METRICS_LOGGING : BOOLEAN]

Stages == <<"load", "train", "analyze", "visualize">>

(***************************************************************************)
(* BaynextLogger: every record carries the step current when it is made.   *)
(***************************************************************************)
Obj == [data_ |-> data_, model_ |-> model_, step |-> step,
        records |-> records, artifacts |-> artifacts]

set_step(o, s) == [o EXCEPT !.step = s]

\* run.info of the run that is active when the logger is made
RunInfo == [experiment_id |-> "experiment", run_name |-> "run"]

\* a prefix made once, with the step the logger was constructed with
_prefix_at_init(o) ==
    [experiment_id |-> RunInfo.experiment_id, run_name |-> RunInfo.run_name,
     step |-> "load"]

\* f"{self.experiment_id} [{self.run_name}][{self.step}] "
_prefix(o) ==
    [experiment_id |-> RunInfo.experiment_id, run_name |-> RunInfo.run_name,
     step |-> o.step]

\* _log: the record is the prefix of the moment and the message
log_record(o, level, msg) ==
    [o EXCEPT !.records = Append(@, [prefix |-> _prefix(o), level |-> level,
                                     msg |-> msg])]

info(o, msg) == log_record(o, "INFO", msg)

exception(o, msg) == log_record(o, "ERROR", msg)

logger_start(o, s) == info(set_step(o, s), "start " \o s)

\* mlflow.log_input / log_artifact / log_table / log_dict: the artifact is in the run.
log_artifact(o, name) == [o EXCEPT !.artifacts = Append(@, name)]

Return(o) == [o |-> o, exc |-> "none"]

Raise(o, e) == [o |-> o, exc |-> e]

\* load without the toggle: the dataset is logged whatever log.dataset says
load_ungated(o, f) ==
    LET o1 == logger_start(o, "load")
    IN  IF f = 1 THEN Raise(o1, "Exception")
        ELSE LET o2 == info([o1 EXCEPT !.data_ = "InputData"], "Dataset loaded")
                 o3 == info(o2, "Saving Meridian dataset")
             IN  IF f = 2 THEN Raise(o3, "Exception")
                 ELSE Return(info(log_artifact(o3, "dataset"),
                                  "Meridian dataset saved"))

(***************************************************************************)
(* Pipeline.load.  f = 1: tasks.load raises; f = 2: log_dataset raises.    *)
(***************************************************************************)
load(o, f) ==
    LET o1 == logger_start(o, "load")
    IN  IF f = 1 THEN Raise(o1, "Exception")
        ELSE LET o2 == info([o1 EXCEPT !.data_ = "InputData"], "Dataset loaded")
             IN  IF ~config.log.dataset THEN Return(o2)
                 ELSE LET o3 == info(o2, "Saving Meridian dataset")
                      IN  IF f = 2 THEN Raise(o3, "Exception")
                          ELSE Return(info(log_artifact(o3, "dataset"),
                                           "Meridian dataset saved"))

\* train without its guard
train_unguarded(o, f) ==
    LET o1 == logger_start(o, "train")
    IN  IF f = 1 THEN Raise(o1, "Exception")
        ELSE LET o2 == info([o1 EXCEPT !.model_ = "Meridian"],
                            "Meridian model training completed")
             IN  IF ~config.log.model THEN Return(o2)
                 ELSE LET o3 == info(o2, "Saving Meridian model")
                      IN  IF f = 2 THEN Raise(o3, "Exception")
                          ELSE Return(info(log_artifact(o3, "models/model.pkl"),
                                           "Meridian model saved"))

(***************************************************************************)
(* Pipeline.train.  f = 1: tasks.train raises; f = 2: log_model raises.    *)
(***************************************************************************)
train(o, f) ==
    LET o1 == logger_start(o, "train")
    IN  IF o1.data_ = None THEN Raise(o1, "ValueError")
        ELSE IF f = 1 THEN Raise(o1, "Exception")
        ELSE LET o2 == info([o1 EXCEPT !.model_ = "Meridian"],
                            "Meridian model training completed")
             IN  IF ~config.log.model THEN Return(o2)
                 ELSE LET o3 == info(o2, "Saving Meridian model")
                      IN  IF f = 2 THEN Raise(o3, "Exception")
                          ELSE Return(info(log_artifact(o3, "models/model.pkl"),
                                           "Meridian model saved"))

\* a loop that notes a failed logging call and goes on with the rest
RECURSIVE log_each_skip(_, _, _, _)
log_each_skip(o, names, i, f) ==
    IF i > Len(names)
    THEN (IF f \in 1..Len(names) THEN Raise(o, "Exception") ELSE Return(o))
    ELSE IF i = f THEN log_each_skip(o, names, i + 1, f)
    ELSE log_each_skip(info(log_artifact(o, names[i]), names[i] \o " logged"),
                       names, i + 1, f)

(***************************************************************************)
(* A stage's run of logging calls: each logs its artifact and then a       *)
(* record; the f-th call raises (f = 0 or f > Len(names): none does).      *)
(***************************************************************************)
RECURSIVE log_each(_, _, _, _)
log_each(o, names, i, f) ==
    IF i > Len(names) THEN Return(o)
    ELSE IF i = f THEN Raise(o, "Exception")
    ELSE log_each(info(log_artifact(o, names[i]), names[i] \o " logged"),
                  names, i + 1, f)

AnalyzeTables == <<"adstock_decay.json", "hill_curves.json",
                   "baseline_summary_metrics.json", "summary_metrics.json">>

\* a copied log_chart block whose file name was not changed
VisualizeArtifacts_pie_twice ==
    <<"plots/model_fit.png", "media_summary.json",
      "plots/channel_contribution_area_chart.png",
      "plots/contribution_waterfall_chart.png",
      "plots/contribution_pie_chart.png",
      "plots/contribution_pie_chart.png",
      "plots/roi_bar_chart.png">>

VisualizeArtifacts == <<"plots/model_fit.png", "media_summary.json",
                        "plots/channel_contribution_area_chart.png",
                        "plots/contribution_waterfall_chart.png",
                        "plots/contribution_pie_chart.png",
                        "plots/spend_vs_contribution.png",
                        "plots/roi_bar_chart.png">>

\* visualize without its guard
visualize_unguarded(o, f) ==
    log_each(logger_start(o, "visualize"), VisualizeArtifacts, 1, f)

\* Pipeline.analyze: the guard comes before the start record.
analyze(o, f) ==
    IF o.model_ = None THEN Raise(o, "ValueError")
    ELSE log_each(logger_start(o, "analyze"), AnalyzeTables, 1, f)

\* Pipeline.visualize
visualize(o, f) ==
    IF o.model_ = None THEN Raise(o, "ValueError")
    ELSE log_each(logger_start(o, "visualize"), VisualizeArtifacts, 1, f)

(***************************************************************************)
(* Pipeline.run: each stage in its own try block; the except clause logs   *)
(* the stage's error record and re-raises.                                 *)
(***************************************************************************)
ErrorMsg(s) ==
    CASE s = "load" -> "Error occurred while loading dataset"
      [] s = "train" -> "Error occurred while training model"
      [] s = "analyze" -> "Error occurred while analyzing model"
      [] s = "visualize" -> "Error occurred while visualizing model"

\* a copy-paste slip: every except clause logs the load stage's message
run_except_load_msg(r, s) ==
    IF r.exc = "none" THEN r
    ELSE [r EXCEPT !.o = exception(r.o, ErrorMsg("load"))]

\* except Exception: self.logger.exception(...); raise
run_except(r, s) ==
    IF r.exc = "none" THEN r
    ELSE [r EXCEPT !.o = exception(r.o, ErrorMsg(s))]

\* an except clause without its raise: the run goes on
run_next_swallow(e, next) == next

\* a run started without the with statement: an exception leaves
\* run_pipeline at once
run_next_no_exit(e, next) == IF e = "none" THEN next ELSE "raised"

\* where run goes after a stage: on to the next one, or out with the exception
run_next(e, next) == IF e = "none" THEN next ELSE "exit"

Commit(r, s, next) ==
    /\ data_' = r.o.data_
    /\ model_' = r.o.model_
    /\ step' = r.o.step
    /\ records' = r.o.records
    /\ artifacts' = r.o.artifacts
    /\ exc' = r.exc
    /\ started' = Append(started, s)
    /\ completed' = IF r.exc = "none" THEN completed \cup {s} ELSE completed
    /\ pc' = run_next(r.exc, next)
    /\ UNCHANGED <<config, env, tracking_uri, active_run, autolog_metrics,
                   system_metrics>>
    /\ UNCHANGED notPipe

RunLoad ==
    /\ pc = "load"
    /\ \E f \in 0..2 :
         Commit(run_except(load(info(Obj, "Starting Baynext ML pipeline"), f), "load"),
                "load", "train")

RunTrain ==
    /\ pc = "train"
    /\ \E f \in 0..2 : Commit(run_except(train(Obj, f), "train"), "train", "analyze")

RunAnalyze ==
    /\ pc = "analyze"
    /\ \E f \in 0..Len(AnalyzeTables) :
         Commit(run_except(analyze(Obj, f), "analyze"), "analyze", "visualize")

RunVisualize ==
    /\ pc = "visualize"
    /\ \E f \in 0..Len(VisualizeArtifacts) :
         LET r == run_except(visualize(Obj, f), "visualize")
             e == IF r.exc = "none"
                  THEN [r EXCEPT !.o = info(r.o, "Baynext ML pipeline ended")]
                  ELSE r
         IN  Commit(e, "visualize", "exit")

(***************************************************************************)
(* The stage methods called one by one on a Pipeline object, in any order  *)
(* and any number of times up to MaxCalls; a call that raises leaves the   *)
(* object as it was when the exception left the method.                    *)
(***************************************************************************)
MaxCalls == 3

Call(r, s) ==
    /\ data_' = r.o.data_
    /\ model_' = r.o.model_
    /\ step' = r.o.step
    /\ records' = r.o.records
    /\ artifacts' = r.o.artifacts
    /\ exc' = r.exc
    /\ started' = Append(started, s)
    /\ completed' = IF r.exc = "none" THEN completed \cup {s} ELSE completed
    /\ UNCHANGED <<config, env, pc, tracking_uri, active_run, autolog_metrics,
                   system_metrics>>
    /\ UNCHANGED notPipe

CallLoad ==
    /\ pc = "object"
    /\ Len(started) < MaxCalls
    /\ \E f \in 0..2 : Call(load(Obj, f), "load")

CallTrain ==
    /\ pc = "object"
    /\ Len(started) < MaxCalls
    /\ \E f \in 0..2 : Call(train(Obj, f), "train")

CallAnalyze ==
    /\ pc = "object"
    /\ Len(started) < MaxCalls
    /\ \E f \in 0..Len(AnalyzeTables) : Call(analyze(Obj, f), "analyze")

CallVisualize ==
    /\ pc = "object"
    /\ Len(started) < MaxCalls
    /\ \E f \in 0..Len(VisualizeArtifacts) : Call(visualize(Obj, f), "visualize")

\* Pipeline(pipeline_config): the object as __init__ leaves it, in an active
\* tracking run; the stage methods read the toggles log.dataset and log.model
InitObject ==
    /\ config \in {c \in PipelineConfig : c.log.metrics /\ c.log.system_metrics}
    /\ env = None
    /\ pc = "object"
    /\ data_ = None
    /\ model_ = None
    /\ step = "load"
    /\ records = <<>>
    /\ artifacts = <<>>
    /\ tracking_uri = None
    /\ active_run = "active"
    /\ autolog_metrics = None
    /\ system_metrics = FALSE
    /\ started = <<>>
    /\ completed = {}
    /\ exc = "none"

NextObject ==
    \/ CallLoad
    \/ CallTrain
    \/ CallAnalyze
    \/ CallVisualize

\* the step is a call of the stage method s
Calls(s) == started' = Append(started, s)

\* C22: in whatever order the stage methods are called, train called while
\* no data is loaded raises ValueError and leaves model_ unset, and analyze
\* or visualize called while no model is trained raises ValueError and logs
\* no table or chart.
C22_StageGuards ==
    /\ [][(Calls("train") /\ data_ = None) =>
             (exc' = "ValueError" /\ model_' = None /\ artifacts' = artifacts)]_vars
    /\ [][((Calls("analyze") \/ Calls("visualize")) /\ model_ = None) =>
             (exc' = "ValueError" /\ artifacts' = artifacts /\ model_' = None)]_vars

\* a load whose loader raised, then train, then visualize: both guards
\* raised and nothing is logged
C22_Witness ==
    /\ started = <<"load", "train", "visualize">>
    /\ data_ = None /\ model_ = None
    /\ exc = "ValueError"
    /\ artifacts = <<>>

\* C23: over every sequence of calls of load, train, analyze and visualize
\* on one Pipeline object, raising calls included, model_ is set only if
\* data_ is set, data_ is written by load alone and model_ by train alone,
\* and analyze and visualize change neither.
C23_DataBeforeModel ==
    /\ [](model_ # None => data_ # None)
    /\ [][data_' # data_ => Calls("load")]_vars
    /\ [][model_' # model_ => Calls("train")]_vars
    /\ [][(Calls("analyze") \/ Calls("visualize")) =>
             (data_' = data_ /\ model_' = model_)]_vars

\* load, train, then a load whose loader raised: both are still set
C23_Witness ==
    /\ started = <<"load", "train", "load">>
    /\ completed = {"load", "train"}
    /\ exc = "Exception"
    /\ data_ # None /\ model_ # None

(***************************************************************************)
(* run_pipeline: autolog, the tracking URI, then the run as a context      *)
(* manager around the Pipeline.                                            *)
(***************************************************************************)
DefaultTrackingUri == "http://localhost:5001"

\* the URI hard-coded
tracking_uri_fixed == DefaultTrackingUri

\* os.getenv("MLFLOW_TRACKING_URI", "http://localhost:5001")
getenv_tracking_uri ==
    IF env.MLFLOW_TRACKING_URI = None THEN DefaultTrackingUri
    ELSE env.MLFLOW_TRACKING_URI

\* autolog.autolog(log_metrics=pipeline_config.log.metrics)
autolog_arg == config.log.metrics

\* mlflow.start_run(run_name=..., description=...): log_system_metrics is not
\* passed, so MLflow decides by MLFLOW_ENABLE_SYSTEM_METRICS_LOGGING.
start_run_system_metrics == env.MLFLOW_ENABLE_SYSTEM_METRICS_LOGGING

Autolog ==
    /\ pc = "autolog"
    /\ autolog_metrics' = autolog_arg
    /\ pc' = "set_tracking_uri"
    /\ UNCHANGED <<config, env, data_, model_, step, records, artifacts,
                   tracking_uri, active_run, system_metrics, started, completed, exc>>
    /\ UNCHANGED notPipe

SetTrackingUri ==
    /\ pc = "set_tracking_uri"
    /\ tracking_uri' = getenv_tracking_uri
    /\ pc' = "start_run"
    /\ UNCHANGED <<config, env, data_, model_, step, records, artifacts,
                   active_run, autolog_metrics, system_metrics, started, completed, exc>>
    /\ UNCHANGED notPipe

\* with mlflow.start_run(...): the run may fail to start (f = 1)
StartRun ==
    /\ pc = "start_run"
    /\ \E f \in 0..1 :
         IF f = 1
         THEN /\ exc' = "Exception"
              /\ pc' = "raised"
              /\ UNCHANGED <<active_run, system_metrics>>
         ELSE /\ active_run' = "active"
              /\ system_metrics' = start_run_system_metrics
              /\ pc' = "construct"
              /\ UNCHANGED exc
    /\ UNCHANGED <<config, env, data_, model_, step, records, artifacts,
                   tracking_uri, autolog_metrics, started, completed>>
    /\ UNCHANGED notPipe

\* pipeline = Pipeline(pipeline_config)
Construct ==
    /\ pc = "construct"
    /\ \E f \in 0..1 :
         /\ exc' = IF f = 1 THEN "Exception" ELSE "none"
         /\ pc' = run_next(exc', "log_config")
    /\ data_' = None
    /\ model_' = None
    /\ step' = "load"
    /\ UNCHANGED <<config, env, records, artifacts, tracking_uri, active_run,
                   autolog_metrics, system_metrics, started, completed>>
    /\ UNCHANGED notPipe

\* a log_config that builds the document and does not log it
log_config_unlogged(o) == o

\* pipeline.log_config()
log_config(o) == log_artifact(o, "baynext.yaml")

LogConfigStep ==
    /\ pc = "log_config"
    /\ \E f \in 0..1 :
         /\ exc' = IF f = 1 THEN "Exception" ELSE "none"
         /\ artifacts' = IF f = 1 THEN artifacts ELSE log_config(Obj).artifacts
         /\ pc' = run_next(exc', "load")
    /\ UNCHANGED <<config, env, data_, model_, step, records, tracking_uri,
                   active_run, autolog_metrics, system_metrics, started, completed>>
    /\ UNCHANGED notPipe

\* leaving the with block ends the run, on the normal and on the exceptional path
EndRun ==
    /\ pc = "exit"
    /\ active_run' = "ended"
    /\ pc' = IF exc = "none" THEN "done" ELSE "raised"
    /\ UNCHANGED <<config, env, data_, model_, step, records, artifacts,
                   tracking_uri, autolog_metrics, system_metrics, started,
                   completed, exc>>
    /\ UNCHANGED notPipe

InitPipe ==
    /\ config \in PipelineConfig
    /\ env \in Environment
    /\ pc = "autolog"
    /\ data_ = None
    /\ model_ = None
    /\ step = "load"
    /\ records = <<>>
    /\ artifacts = <<>>
    /\ tracking_uri = None
    /\ active_run = "none"
    /\ autolog_metrics = None
    /\ system_metrics = FALSE
    /\ started = <<>>
    /\ completed = {}
    /\ exc = "none"

NextPipe ==
    \/ Autolog
    \/ SetTrackingUri
    \/ StartRun
    \/ Construct
    \/ LogConfigStep
    \/ RunLoad
    \/ RunTrain
    \/ RunAnalyze
    \/ RunVisualize
    \/ EndRun

(***************************************************************************)
(*                       Properties of run_pipeline                        *)
(***************************************************************************)
IsPrefix(s, t) == Len(s) <= Len(t) /\ \A i \in 1..Len(s) : s[i] = t[i]

ErrorRecords == SelectSeq(records, LAMBDA r : r.level = "ERROR")

EndedLogged == \E i \in 1..Len(records) : records[i].msg = "Baynext ML pipeline ended"

Logged(name) == name \in Range(artifacts)

\* the stage run called last raised
StageRaised == started # <<>> /\ started[Len(started)] \notin completed

\* C1: in Pipeline.run the stages start in the order load, train, analyze,
\* visualize, each at most once, and a stage starts only if every earlier
\* stage returned without raising.
C1_StagesInOrder ==
    /\ IsPrefix(started, Stages)
    /\ \A i \in 1..Len(started) : \A j \in 1..(i - 1) : Stages[j] \in completed

\* all four stages were started
C1_Witness == started = Stages /\ completed = Range(Stages)

\* C2: when a stage raises inside run, exactly one error record, naming that
\* stage, is logged, the exception propagates out of run, no later stage is
\* started and none is retried, and the 'pipeline ended' record is not logged;
\* the 'pipeline ended' record is logged iff all four stages returned.
C2_StageFailureAborts ==
    /\ StageRaised =>
         /\ exc # "none"
         /\ Len(ErrorRecords) = 1
         /\ ErrorRecords[1].msg = ErrorMsg(started[Len(started)])
         /\ pc \in {"exit", "raised"}
         /\ ~EndedLogged
    /\ ~StageRaised => ErrorRecords = <<>>
    /\ EndedLogged <=> completed = Range(Stages)
    /\ pc = "raised" => exc # "none"
    /\ pc = "done" => exc = "none" /\ completed = Range(Stages)

\* the analyze stage raised and run_pipeline has propagated the exception
C2_Witness ==
    /\ pc = "raised"
    /\ started = <<"load", "train", "analyze">>
    /\ "analyze" \notin completed

\* C9: the dataset is logged iff log.dataset is true and the load stage
\* returned, the model is logged iff log.model is true and the train stage
\* returned; with a toggle false the stage still returns and sets its output.
C9_TogglesGateLogging ==
    /\ Logged("dataset") <=> (config.log.dataset /\ "load" \in completed)
    /\ Logged("models/model.pkl") <=> (config.log.model /\ "train" \in completed)
    /\ (~config.log.dataset /\ data_ # None) => "load" \in completed
    /\ (~config.log.model /\ model_ # None) => "train" \in completed
    /\ "load" \in completed => data_ # None
    /\ "train" \in completed => model_ # None

\* dataset logging off, model logging on: both stages returned
C9_Witness ==
    /\ ~config.log.dataset /\ config.log.model
    /\ {"load", "train"} \subseteq completed
    /\ data_ # None /\ ~Logged("dataset") /\ Logged("models/model.pkl")

\* C10 (as stated): system-metrics logging is enabled for the run iff
\* log.system_metrics is true, and log.metrics is the value passed to autolog.
C10_SystemMetricsToggle ==
    active_run # "none" =>
        /\ system_metrics <=> config.log.system_metrics
        /\ autolog_metrics = config.log.metrics

Count(seq, x) == Cardinality({i \in 1..Len(seq) : seq[i] = x})

AllToggles ==
    /\ config.log.metrics /\ config.log.dataset
    /\ config.log.model /\ config.log.system_metrics

Tables == {"adstock_decay.json", "hill_curves.json", "baseline_summary_metrics.json",
           "summary_metrics.json", "media_summary.json"}

Charts == {"plots/model_fit.png", "plots/channel_contribution_area_chart.png",
           "plots/contribution_waterfall_chart.png",
           "plots/contribution_pie_chart.png", "plots/spend_vs_contribution.png",
           "plots/roi_bar_chart.png"}

\* C11: after a run of run_pipeline that completes without exception with
\* all log toggles true, the tracking run holds the configuration document,
\* the dataset, models/model.pkl, the five JSON tables and the six PNG charts
\* under plots, each logged exactly once.
C11_AllArtifactsOnce ==
    (pc = "done" /\ AllToggles) =>
        /\ Range(artifacts) =
             {"baynext.yaml", "dataset", "models/model.pkl"} \cup Tables \cup Charts
        /\ \A a \in Range(artifacts) : Count(artifacts, a) = 1
        /\ Cardinality(Tables) = 5 /\ Cardinality(Charts) = 6

\* a run with every toggle true has completed
C11_Witness == pc = "done" /\ AllToggles /\ active_run = "ended"

\* C12: the tracking URI is set, to MLFLOW_TRACKING_URI when that variable is
\* set and to http://localhost:5001 otherwise, before the tracking run is
\* started, and every artifact, table and dataset is logged while that run is
\* active.
C12_UriThenRunThenLogging ==
    /\ [](active_run # "none" =>
            tracking_uri = IF env.MLFLOW_TRACKING_URI = None
                           THEN "http://localhost:5001"
                           ELSE env.MLFLOW_TRACKING_URI)
    /\ [][artifacts' # artifacts => active_run = "active" /\ active_run' = "active"]_vars

\* MLFLOW_TRACKING_URI is set and the run, still active, holds the
\* configuration document and the dataset
C12_Witness ==
    /\ env.MLFLOW_TRACKING_URI # None
    /\ active_run = "active"
    /\ Logged("baynext.yaml") /\ Logged("dataset")

\* the place of a step in the order of the stages
StageIndex(s) == CHOOSE i \in 1..Len(Stages) : Stages[i] = s

\* the record is the start record of stage s
IsStart(r, s) == r.msg = "start " \o s

\* C24: every record logged during Pipeline.run is prefixed with the
\* experiment id, the run name and a step; from the start record of a stage
\* to the start record of the next, every record, the error record run logs
\* for a failing stage included, carries that stage as its step; and the step
\* only advances in the order load, train, analyze, visualize.
C24_RecordsCarryStageStep ==
    /\ [](\A i \in 1..Len(records) :
            /\ records[i].prefix.experiment_id = "experiment"
            /\ records[i].prefix.run_name = "run"
            /\ \A j \in 1..i : \A s \in Range(Stages) :
                  (/\ IsStart(records[j], s)
                   /\ \A k \in (j + 1)..i : \A t \in Range(Stages) :
                         ~IsStart(records[k], t))
                  => records[i].prefix.step = s
            /\ \A j \in 1..i :
                  StageIndex(records[j].prefix.step) <= StageIndex(records[i].prefix.step))
    /\ [](StageRaised =>
            /\ ErrorRecords # <<>>
            /\ ErrorRecords[1].prefix.step = started[Len(started)])
    /\ [][StageIndex(step') >= StageIndex(step)]_vars

\* the train stage raised: its error record carries the step train, after
\* records of the load stage that carry the step load
C24_Witness ==
    /\ started = <<"load", "train">>
    /\ StageRaised
    /\ records[Len(records)].msg = ErrorMsg("train")
    /\ records[Len(records)].prefix.step = "train"
    /\ records[1].prefix.step = "load"

\* C25: run_pipeline closes the tracking run on every path: the run it
\* started is ended when the pipeline completes and when a stage, the
\* Pipeline constructor or log_config raises, so no run is still active once
\* run_pipeline has returned or propagated an exception.
C25_RunClosedOnEveryPath ==
    /\ [](pc \in {"done", "raised"} => active_run \in {"none", "ended"})
    /\ [](pc \in {"done", "raised"} /\ tracking_uri # None /\ active_run = "none"
            => exc # "none" /\ started = <<>> /\ artifacts = <<>>)
    /\ [][active_run' # active_run =>
             \/ active_run = "none" /\ active_run' = "active"
             \/ active_run = "active" /\ active_run' = "ended"]_vars

\* the constructor or log_config raised: the run that was started is ended
C25_Witness ==
    /\ pc = "raised"
    /\ started = <<>>
    /\ artifacts = <<>>
    /\ active_run = "ended"

\* C26: the configuration is logged to the tracking run as baynext.yaml after
\* the run is started and before the load stage starts, so every run that
\* reached a stage, one whose first stage failed included, has it.
C26_ConfigLoggedBeforeLoad ==
    /\ [](started # <<>> => artifacts # <<>> /\ artifacts[1] = "baynext.yaml")
    /\ [](pc = "load" => artifacts = <<"baynext.yaml">>)
    /\ [][(Logged("baynext.yaml")' /\ ~Logged("baynext.yaml")) =>
             (active_run = "active" /\ started = <<>> /\ started' = <<>>)]_vars

\* the load stage raised in its loader: the run holds the configuration alone
C26_Witness ==
    /\ started = <<"load">>
    /\ StageRaised
    /\ artifacts = <<"baynext.yaml">>
    /\ active_run = "ended"

\* the logging actions of a run, in the order the stages make them
LoggingOrder ==
    <<"dataset", "models/model.pkl", "adstock_decay.json", "hill_curves.json",
      "baseline_summary_metrics.json", "summary_metrics.json",
      "plots/model_fit.png", "media_summary.json",
      "plots/channel_contribution_area_chart.png",
      "plots/contribution_waterfall_chart.png", "plots/contribution_pie_chart.png",
      "plots/spend_vs_contribution.png", "plots/roi_bar_chart.png">>

\* those of them the toggles leave on
LoggingActions ==
    SelectSeq(LoggingOrder,
              LAMBDA a : /\ a = "dataset" => config.log.dataset
                         /\ a = "models/model.pkl" => config.log.model)

\* what the stages logged: the artifacts after the configuration document
StageArtifacts == IF artifacts = <<>> THEN <<>> ELSE Tail(artifacts)

\* C19: if the k-th logging action of a run raises, every artifact logged
\* before it stays in the tracking run and no artifact after it is logged: the
\* artifacts of a run are always the first k - 1 of the logging order, they
\* are never taken back, and none is added once an exception propagates.
C19_FailureKeepsEarlierDoesNoLater ==
    /\ [](IsPrefix(StageArtifacts, LoggingActions))
    /\ [][IsPrefix(artifacts, artifacts')]_vars
    /\ [][exc # "none" => artifacts' = artifacts]_vars

\* the third table of analyze raised: the run has ended with the dataset, the
\* model and two tables
C19_Witness ==
    /\ pc = "raised"
    /\ AllToggles
    /\ artifacts = <<"baynext.yaml", "dataset", "models/model.pkl",
                     "adstock_decay.json", "hill_curves.json">>

(***************************************************************************)
(* PipelineConfig resolution.  A settings source yields a nested mapping   *)
(* that holds the fields it sets; the sources returned by                 *)
(* settings_customise_sources are merged in that order, an earlier source  *)
(* winning, and the merged mapping is validated against the declared       *)
(* fields.                                                                 *)
(***************************************************************************)
MaxVal == 2
MaxPopulated == 4

Values == 1..MaxVal

\* the declared default of a field that has one
Default == 0

SourceNames == {"env", "dotenv", "yaml", "cli"}

\* message: required, no default; log: a nested model with defaults
TopFields == {"message", "log"}
Sections == {"log"}
LogFields == {"dataset", "model"}

\* the leaf fields, as paths
Leaves == {<<"message">>} \cup {<<"log", k>> : k \in LogFields}

EmptyDict == [k \in {} |-> Default]

\* the mapping d with the leaf at path set to v
Put(d, path, v) ==
    IF Len(path) = 1
    THEN [k \in DOMAIN d \cup {path[1]} |-> IF k = path[1] THEN v ELSE d[k]]
    ELSE LET sub == IF path[1] \in DOMAIN d THEN d[path[1]] ELSE EmptyDict
             new == [k \in DOMAIN sub \cup {path[2]} |->
                        IF k = path[2] THEN v ELSE sub[k]]
         IN  [k \in DOMAIN d \cup {path[1]} |-> IF k = path[1] THEN new ELSE d[k]]

Sets(d, path) ==
    /\ path[1] \in DOMAIN d
    /\ Len(path) = 2 => path[2] \in DOMAIN d[path[1]]

Get(d, path) == IF Len(path) = 1 THEN d[path[1]] ELSE d[path[1]][path[2]]

\* deep_update(mapping, updating): updating wins key by key, nested mappings merged
RECURSIVE deep_update(_, _, _)
deep_update(mapping, updating, depth) ==
    [k \in DOMAIN mapping \cup DOMAIN updating |->
        IF k \notin DOMAIN updating THEN mapping[k]
        ELSE IF k \in DOMAIN mapping /\ depth = 1 /\ k \in Sections
             THEN deep_update(mapping[k], updating[k], depth + 1)
             ELSE updating[k]]

\* the outcomes of PipelineConfig(): not constructed yet, or a validation error
Unresolved == [status |-> "unresolved", message |-> Default,
               log |-> [k \in LogFields |-> Default]]

ValidationError == [status |-> "ValidationError", message |-> Default,
                    log |-> [k \in LogFields |-> Default]]

\* the usual order, CLI arguments first
cli_first_sources == <<"cli", "env", "dotenv", "yaml">>

\* the tuple settings_customise_sources returns
settings_customise_sources == <<"env", "dotenv", "yaml", "cli">>

\* state = {}; for source in sources: state = deep_update(source(), state)
RECURSIVE build_values(_, _)
build_values(i, state) ==
    IF i > Len(settings_customise_sources) THEN state
    ELSE build_values(i + 1,
                      deep_update(sources[settings_customise_sources[i]], state, 1))

\* validation: a required field that no source sets fails; a field with a
\* default takes it
validate(state) ==
    IF "message" \notin DOMAIN state THEN ValidationError
    ELSE [status |-> "ok",
          message |-> state["message"],
          log |-> [k \in LogFields |->
                     IF "log" \in DOMAIN state /\ k \in DOMAIN state["log"]
                     THEN state["log"][k] ELSE Default]]

Populate(src) ==
    /\ resolved = Unresolved
    /\ populated < MaxPopulated
    /\ \E path \in Leaves, v \in Values :
         sources' = [sources EXCEPT ![src] = Put(@, path, v)]
    /\ populated' = populated + 1
    /\ UNCHANGED resolved
    /\ UNCHANGED notCfg

SetEnv == Populate("env")

SetDotenv == Populate("dotenv")

SetYaml == Populate("yaml")

SetCli == Populate("cli")

\* PipelineConfig()
Resolve ==
    /\ resolved = Unresolved
    /\ resolved' = validate(build_values(1, EmptyDict))
    /\ UNCHANGED <<sources, populated>>
    /\ UNCHANGED notCfg

InitCfg ==
    /\ sources = [s \in SourceNames |-> EmptyDict]
    /\ resolved = Unresolved
    /\ populated = 0

NextCfg ==
    \/ SetEnv
    \/ SetDotenv
    \/ SetYaml
    \/ SetCli
    \/ Resolve

(***************************************************************************)
(* The baynext entry point cli(): PipelineConfig() and then run_pipeline   *)
(* on what it resolved.                                                    *)
(***************************************************************************)
\* a log toggle as resolved: the value 1 stands for false, every other value
\* for true, and the declared default is True
toggle(v) == v # 1

\* the PipelineConfig object run_pipeline is given
resolved_config(r) ==
    [log |-> [metrics |-> TRUE, dataset |-> toggle(r.log["dataset"]),
              model |-> toggle(r.log["model"]), system_metrics |-> TRUE]]

\* an entry point that goes on with what it has when resolution fails
cli_goes_on(r) == "autolog"

\* pipeline_config = PipelineConfig(); run_pipeline(pipeline_config): when
\* the constructor raises, the call below it is not reached
cli_then(r) == IF r.status = "ok" THEN "autolog" ELSE "raised"

cli ==
    /\ pc = "idle"
    /\ resolved = Unresolved
    /\ resolved' = validate(build_values(1, EmptyDict))
    /\ pc' = cli_then(resolved')
    /\ IF pc' = "autolog"
       THEN config' = resolved_config(resolved') /\ UNCHANGED exc
       ELSE exc' = resolved'.status /\ UNCHANGED config
    /\ UNCHANGED <<env, data_, model_, step, records, artifacts, tracking_uri,
                   active_run, autolog_metrics, system_metrics, started, completed>>
    /\ UNCHANGED <<sources, populated>>
    /\ UNCHANGED <<cliVars, trainingVars, mainVars, trainVars, loadVars,
                   priorVars, loggerVars>>

\* the sources with one leaf put into one of them
OnePut(s, src, path, v) == [s EXCEPT ![src] = Put(@, path, v)]

\* the populations of the sources with at most two leaves set
FewSources ==
    LET empty == [s \in SourceNames |-> EmptyDict]
        one == {OnePut(empty, src, path, v) :
                    src \in SourceNames, path \in Leaves, v \in Values}
        two == UNION {{OnePut(s, src, path, v) :
                          src \in SourceNames, path \in Leaves, v \in Values} :
                      s \in one}
    IN  {empty} \cup one \cup two

InitCliEntry ==
    /\ sources \in FewSources
    /\ resolved = Unresolved
    /\ populated = 0
    /\ config = None
    /\ env \in Environment
    /\ pc = "idle"
    /\ data_ = None
    /\ model_ = None
    /\ step = "load"
    /\ records = <<>>
    /\ artifacts = <<>>
    /\ tracking_uri = None
    /\ active_run = "none"
    /\ autolog_metrics = None
    /\ system_metrics = FALSE
    /\ started = <<>>
    /\ completed = {}
    /\ exc = "none"

NextCliEntry ==
    \/ cli
    \/ NextPipe

\* C18: when PipelineConfig resolution fails in cli(), no tracking run is
\* started, no stage runs and nothing is logged to the tracking backend.
C18_FailedResolutionRunsNothing ==
    resolved.status = "ValidationError" =>
        /\ pc = "raised"
        /\ active_run = "none"
        /\ started = <<>>
        /\ artifacts = <<>>
        /\ records = <<>>
        /\ tracking_uri = None
        /\ autolog_metrics = None

\* the log toggles are set but message is not: the constructor raised
C18_Witness ==
    /\ resolved.status = "ValidationError"
    /\ Sets(sources["yaml"], <<"log", "dataset">>)
    /\ pc = "raised"

(***************************************************************************)
(*                  Properties of PipelineConfig resolution                *)
(***************************************************************************)
Precedence == <<"env", "dotenv", "yaml", "cli">>

SetBy(path) == {i \in 1..Len(Precedence) : Sets(sources[Precedence[i]], path)}

First(S) == CHOOSE i \in S : \A j \in S : i <= j

\* the value of the highest-priority source that sets the leaf, else its default
Expected(path) ==
    IF SetBy(path) = {} THEN Default
    ELSE Get(sources[Precedence[First(SetBy(path))]], path)

\* C3: every leaf of the resolved configuration is the value of the
\* highest-priority source that sets it, in the order environment, dotenv,
\* YAML file, CLI arguments; a field no source sets takes its default (a
\* required field fails validation); this holds however the sources were
\* populated.
C3_SourcePrecedence ==
    resolved # Unresolved =>
        IF SetBy(<<"message">>) = {} THEN resolved = ValidationError
        ELSE /\ resolved.status = "ok"
             /\ \A path \in Leaves : Get(resolved, path) = Expected(path)

\* the environment and the CLI disagree on log.dataset, the YAML file alone
\* sets log.model, and the configuration was resolved
C3_Witness ==
    /\ resolved.status = "ok"
    /\ Sets(sources["env"], <<"log", "dataset">>)
    /\ Sets(sources["cli"], <<"log", "dataset">>)
    /\ sources["env"]["log"]["dataset"] # sources["cli"]["log"]["dataset"]
    /\ ~Sets(sources["env"], <<"log", "model">>)
    /\ Sets(sources["yaml"], <<"log", "model">>)
    /\ resolved.log["model"] = sources["yaml"]["log"]["model"]

(***************************************************************************)
(* The Typer train command.  Option texts are sequences of characters; an  *)
(* omitted option is NoneStr and a list argument that is None is NoneList. *)
(***************************************************************************)
MaxLen == 3

Alphabet == {"a", "b", ",", " "}

Texts == UNION {[1..n -> Alphabet] : n \in 0..MaxLen}

NoneStr == <<"None">>

NoneList == <<NoneStr>>

\* str.split(sep): the pieces between the separators, empty pieces kept
RECURSIVE split(_, _)
split(s, sep) ==
    IF \A i \in 1..Len(s) : s[i] # sep THEN <<s>>
    ELSE LET i == CHOOSE i \in 1..Len(s) :
                     s[i] = sep /\ \A j \in 1..(i - 1) : s[j] # sep
         IN  <<SubSeq(s, 1, i - 1)>> \o split(SubSeq(s, i + 1, Len(s)), sep)

\* str.strip(): without its leading and trailing whitespace
strip(s) ==
    LET inked == {i \in 1..Len(s) : s[i] # " "}
    IN  IF inked = {} THEN <<>>
        ELSE SubSeq(s, CHOOSE i \in inked : \A j \in inked : i <= j,
                       CHOOSE i \in inked : \A j \in inked : i >= j)

\* a parse that keeps the pieces as they are
parse_list_unstripped(text) ==
    SelectSeq(split(text, ","), LAMBDA x : strip(x) # <<>>)

\* [c.strip() for c in text.split(",") if c.strip()]
parse_list(text) ==
    LET parts == split(text, ",")
        stripped == [i \in 1..Len(parts) |-> strip(parts[i])]
    IN  SelectSeq(stripped, LAMBDA x : x # <<>>)

\* [...] if text else None
parse_optional(text) ==
    IF text = NoneStr \/ text = <<>> THEN NoneList ELSE parse_list(text)

\* the truth value of a list argument: None and [] are false
truthy(list) == list # NoneList /\ list # <<>>

\* if media_list and media_spend_list and len(media_list) != len(media_spend_list)
length_mismatch(media_list, media_spend_list) ==
    /\ truthy(media_list)
    /\ truthy(media_spend_list)
    /\ Len(media_list) # Len(media_spend_list)

\* the classes of an exception, itself first (typer.Exit is click's Exit, a
\* RuntimeError)
Mro(e) ==
    CASE e = "Exit" -> {"Exit", "RuntimeError", "Exception"}
      [] e = "ValueError" -> {"ValueError", "Exception"}
      [] e = "FileNotFoundError" -> {"FileNotFoundError", "OSError", "Exception"}
      [] e = "KeyError" -> {"KeyError", "LookupError", "Exception"}
      [] e = "RuntimeError" -> {"RuntimeError", "Exception"}

\* except Exception
except_catches_all(e) == "Exception" \in Mro(e)

\* except ValueError
except_catches_value_error(e) == "ValueError" \in Mro(e)

\* except (ValueError, FileNotFoundError, KeyError)
except_catches(e) == Mro(e) \cap {"ValueError", "FileNotFoundError", "KeyError"} # {}

\* --output as typer hands it over, a Path, and str(output)
Path(name) == [path |-> name]

str(path) == path.path

NotCalled == [called |-> FALSE, controls |-> NoneList, media |-> NoneList,
              media_spend |-> NoneList, organic_media |-> NoneList,
              non_media_treatments |-> NoneList, file_path |-> None]

\* the except clause of the command, given the exception e raised in its try
\* block: a caught exception is reported and turned into typer.Exit(1), any
\* other leaves the command as it is (typer.Exit(1) with its own code 1)
train_except(out, e, verbose) ==
    IF except_catches(e)
    THEN [out |-> Append(out, "Training failed")
                    \o (IF verbose THEN <<"traceback">> ELSE <<>>),
          code |-> <<1>>]
    ELSE [out |-> out, code |-> <<1>>]

\* if verbose: the configuration is printed first
print_configuration(verbose) == IF verbose THEN <<"Configuration">> ELSE <<>>

\* the command up to its call of the training pipeline
TrainInvoke ==
    /\ cli_pc = "start"
    /\ LET controls_list == parse_list(cli_args.controls)
           media_list == parse_optional(cli_args.media)
           media_spend_list == parse_optional(cli_args.media_spend)
           organic_media_list == parse_optional(cli_args.organic_media)
           non_media_treatments_list == parse_optional(cli_args.non_media_treatments)
       IN  IF length_mismatch(media_list, media_spend_list)
           THEN LET r == train_except(
                           print_configuration(cli_args.verbose)
                               \o <<"Error: lists must have the same length">>,
                           "Exit", cli_args.verbose)
                IN  /\ cli_out' = r.out
                    /\ cli_exit' = r.code
                    /\ cli_pc' = "exited"
                    /\ UNCHANGED <<cli_call, training_pc>>
           ELSE /\ cli_call' = [called |-> TRUE, controls |-> controls_list,
                                media |-> media_list,
                                media_spend |-> media_spend_list,
                                organic_media |-> organic_media_list,
                                non_media_treatments |-> non_media_treatments_list,
                                file_path |-> str(cli_args.output)]
                /\ cli_out' = print_configuration(cli_args.verbose)
                /\ cli_pc' = "pipeline"
                /\ training_pc' = "load"
                /\ UNCHANGED cli_exit
    /\ UNCHANGED <<cli_args, training_locals, training_calls, training_exc,
                   training_log>>
    /\ UNCHANGED notCli

(***************************************************************************)
(* main of the training package, which the command calls as                *)
(* run_training_pipeline: four tasks, each of which returns or raises.     *)
(***************************************************************************)
PipelineOutcomes == {"ok", "ValueError", "FileNotFoundError", "KeyError", "RuntimeError"}

NoLocals == [input_data |-> None, model_spec |-> None, meridian |-> None]

\* where main is after a task: at the next statement when the task
\* returned, out of main when it raised
task_done(e, next) == IF e = "ok" THEN next ELSE "raised"

raised(e) == IF e = "ok" THEN "none" ELSE e

\* a record main logs after a task returned
logged_after(e, msg) == IF e = "ok" THEN <<msg>> ELSE <<>>

\* load(csv_path=..., controls=controls, ..., media=media, ...)
load_call(a) ==
    [task |-> "load",
     args |-> [controls |-> a.controls, media |-> a.media,
               media_spend |-> a.media_spend, organic_media |-> a.organic_media,
               non_media_treatments |-> a.non_media_treatments]]

\* prepare(roi_mu=..., roi_sigma=..., max_lag=...)
prepare_call == [task |-> "prepare", args |-> <<>>]

\* train(input_data=input_data, model_spec=model_spec, ...)
train_call(locals) ==
    [task |-> "train",
     args |-> [input_data |-> locals.input_data, model_spec |-> locals.model_spec]]

\* a save given the data the model was trained on
save_call_input_data(locals, file_path) ==
    [task |-> "save", args |-> [meridian |-> locals.input_data, file_path |-> file_path]]

\* save(meridian, file_path)
save_call(locals, file_path) ==
    [task |-> "save", args |-> [meridian |-> locals.meridian, file_path |-> file_path]]

\* logger.info("Starting ..."); input_data = load(...); logger.info(...)
TrainingLoad ==
    /\ training_pc = "load"
    /\ training_calls' = Append(training_calls, load_call(cli_call))
    /\ \E e \in PipelineOutcomes :
         /\ training_pc' = task_done(e, "prepare")
         /\ training_exc' = raised(e)
         /\ training_locals' = IF e = "ok"
                               THEN [training_locals EXCEPT !.input_data = "InputData"]
                               ELSE training_locals
         /\ training_log' = training_log \o <<"Starting Meridian model training pipeline">>
                                \o logged_after(e, "Input data loaded successfully")
    /\ UNCHANGED cliVars
    /\ UNCHANGED notCli

\* model_spec = prepare(...); logger.info(...)
TrainingPrepare ==
    /\ training_pc = "prepare"
    /\ training_calls' = Append(training_calls, prepare_call)
    /\ \E e \in PipelineOutcomes :
         /\ training_pc' = task_done(e, "train")
         /\ training_exc' = raised(e)
         /\ training_locals' = IF e = "ok"
                               THEN [training_locals EXCEPT !.model_spec = "ModelSpec"]
                               ELSE training_locals
         /\ training_log' = training_log
                                \o logged_after(e, "Model specification prepared successfully")
    /\ UNCHANGED cliVars
    /\ UNCHANGED notCli

\* meridian = train(input_data=input_data, model_spec=model_spec, ...);
\* logger.info(...)
TrainingTrain ==
    /\ training_pc = "train"
    /\ training_calls' = Append(training_calls, train_call(training_locals))
    /\ \E e \in PipelineOutcomes :
         /\ training_pc' = task_done(e, "save")
         /\ training_exc' = raised(e)
         /\ training_locals' = IF e = "ok"
                               THEN [training_locals EXCEPT !.meridian = "Meridian"]
                               ELSE training_locals
         /\ training_log' = training_log
                                \o logged_after(e, "Meridian model trained successfully")
    /\ UNCHANGED cliVars
    /\ UNCHANGED notCli

\* save(meridian, file_path); logger.info(...); main returns
TrainingSave ==
    /\ training_pc = "save"
    /\ training_calls' = Append(training_calls,
                                save_call(training_locals, cli_call.file_path))
    /\ \E e \in PipelineOutcomes :
         /\ training_pc' = task_done(e, "returned")
         /\ training_exc' = raised(e)
         /\ training_log' = training_log \o logged_after(e, "Trained model saved")
    /\ UNCHANGED training_locals
    /\ UNCHANGED cliVars
    /\ UNCHANGED notCli

\* the training pipeline returned or raised, and the command ends
TrainFinish ==
    /\ cli_pc = "pipeline"
    /\ training_pc \in {"returned", "raised"}
    /\ IF training_exc = "none"
       THEN /\ cli_out' = cli_out \o <<"Training completed successfully",
                                       "Model saved to">>
            /\ cli_exit' = <<0>>
       ELSE LET r == train_except(cli_out, training_exc, cli_args.verbose)
            IN  /\ cli_out' = r.out
                /\ cli_exit' = r.code
    /\ cli_pc' = "exited"
    /\ UNCHANGED <<cli_args, cli_call>>
    /\ UNCHANGED trainingVars
    /\ UNCHANGED notCli

\* an option text, or None for an option that was not given
OptTexts == Texts \cup {NoneStr}

TextLen(text) == IF text = NoneStr THEN 0 ELSE Len(text)

Outputs == {Path("model.pkl"), Path("out/model.pkl")}

\* the command line with one control column and no other list option
BaseArgs == [controls |-> <<"a">>, media |-> NoneStr, media_spend |-> NoneStr,
             organic_media |-> NoneStr, non_media_treatments |-> NoneStr,
             verbose |-> FALSE, output |-> Path("model.pkl")]

\* the command lines that vary --media and --media-spend, by texts of at
\* most MaxLen + 1 characters together
MediaArgs ==
    {[BaseArgs EXCEPT !.media = p[1], !.media_spend = p[2], !.verbose = v] :
        p \in {q \in OptTexts \X OptTexts : TextLen(q[1]) + TextLen(q[2]) <= MaxLen + 1},
        v \in BOOLEAN}

\* the command lines that vary one of the other list options, and --output
OtherArgs ==
    {[BaseArgs EXCEPT !.controls = t, !.output = o] : t \in Texts, o \in Outputs}
    \cup {[BaseArgs EXCEPT !.organic_media = t, !.output = o] :
              t \in OptTexts, o \in Outputs}
    \cup {[BaseArgs EXCEPT !.non_media_treatments = t, !.output = o] :
              t \in OptTexts, o \in Outputs}

InitTraining ==
    /\ training_pc = "idle"
    /\ training_locals = NoLocals
    /\ training_calls = <<>>
    /\ training_exc = "none"
    /\ training_log = <<>>

InitCli ==
    /\ cli_args \in MediaArgs \cup OtherArgs
    /\ cli_pc = "start"
    /\ cli_out = <<>>
    /\ cli_exit = <<>>
    /\ cli_call = NotCalled
    /\ InitTraining

NextCli ==
    \/ TrainInvoke
    \/ TrainingLoad
    \/ TrainingPrepare
    \/ TrainingTrain
    \/ TrainingSave
    \/ TrainFinish

(***************************************************************************)
(*                     Properties of the train command                     *)
(***************************************************************************)
Printed(msg) == msg \in Range(cli_out)

\* --media and --media-spend both parse to non-empty lists of different lengths
Mismatched ==
    /\ cli_args.media # NoneStr
    /\ cli_args.media_spend # NoneStr
    /\ parse_list(cli_args.media) # <<>>
    /\ parse_list(cli_args.media_spend) # <<>>
    /\ Len(parse_list(cli_args.media)) # Len(parse_list(cli_args.media_spend))

\* C4: when --media and --media-spend parse to non-empty lists of different
\* lengths, an error is printed, the command exits with code 1, the exit is
\* not taken by the except clause, and the training pipeline is never invoked.
C4_MismatchExits ==
    Mismatched =>
        /\ ~cli_call.called
        /\ cli_pc # "pipeline"
        /\ cli_pc = "exited" =>
             /\ cli_exit = <<1>>
             /\ Printed("Error: lists must have the same length")
             /\ ~Printed("Training failed")
             /\ ~Printed("Training completed successfully")

\* two media channels against one spend column: the command has exited
C4_Witness ==
    /\ cli_args.media = <<"a", ",", "b">>
    /\ cli_args.media_spend = <<"a">>
    /\ cli_pc = "exited"

\* C5 (as stated): whenever the training pipeline is invoked with media and
\* media_spend both not None, the two lists have equal length.
C5_EqualLengthsAtCall ==
    (cli_call.called /\ cli_call.media # NoneList /\ cli_call.media_spend # NoneList)
        => Len(cli_call.media) = Len(cli_call.media_spend)

\* the tasks main called, in order
TasksCalled == [i \in 1..Len(training_calls) |-> training_calls[i].task]

\* how many tasks have returned
TasksReturned ==
    CASE training_pc \in {"idle", "load"} -> 0
      [] training_pc = "prepare" -> 1
      [] training_pc = "train" -> 2
      [] training_pc = "save" -> 3
      [] training_pc = "returned" -> 4
      [] training_pc = "raised" -> Len(training_calls) - 1

\* C14: main of the training package calls load, prepare, train and save in
\* that order, each after the one before it returned; save is given the model
\* train returned and the file_path main was given; and the command prints
\* 'Training completed successfully' only after save returned.
C14_TasksInOrderThenSuccess ==
    /\ IsPrefix(TasksCalled, <<"load", "prepare", "train", "save">>)
    /\ Len(training_calls) \in {TasksReturned, TasksReturned + 1}
    /\ training_pc \in {"prepare", "train", "save", "returned"} =>
          Len(training_calls) = TasksReturned
    /\ \A i \in 1..Len(training_calls) :
          training_calls[i].task = "save" =>
              /\ training_calls[i].args.meridian = "Meridian"
              /\ training_locals.meridian = "Meridian"
              /\ training_calls[i].args.file_path = str(cli_args.output)
    /\ Printed("Training completed successfully") =>
          /\ training_pc = "returned"
          /\ TasksCalled = <<"load", "prepare", "train", "save">>

\* the model was saved to the path given with --output and the command has
\* printed its success
C14_Witness ==
    /\ cli_args.output = Path("out/model.pkl")
    /\ cli_pc = "exited"
    /\ Printed("Training completed successfully")
    /\ Len(training_calls) = 4

\* C16: when the training pipeline raises ValueError, FileNotFoundError or
\* KeyError, the command prints 'Training failed', exits with code 1 and does
\* not print the success message; no invocation both prints the success
\* message and exits with a failure code.
C16_FailureReportedNeverSuccess ==
    /\ (cli_pc = "exited"
          /\ training_exc \in {"ValueError", "FileNotFoundError", "KeyError"}) =>
             /\ Printed("Training failed")
             /\ cli_exit = <<1>>
             /\ ~Printed("Training completed successfully")
    /\ Printed("Training completed successfully") => cli_exit = <<0>>
    /\ training_exc # "none" => ~Printed("Training completed successfully")

\* the train task raised KeyError and the command has exited
C16_Witness ==
    /\ cli_pc = "exited"
    /\ training_exc = "KeyError"
    /\ TasksCalled = <<"load", "prepare", "train">>

\* the positions that bound the items of a text: before it, its commas,
\* after it
Bounds(text) == {0, Len(text) + 1} \cup {i \in 1..Len(text) : text[i] = ","}

\* the k-th smallest member of a set of numbers
Nth(S, k) == CHOOSE x \in S : Cardinality({y \in S : y < x}) = k - 1

\* the text between the k-th bound and the next
Piece(text, k) ==
    SubSeq(text, Nth(Bounds(text), k) + 1, Nth(Bounds(text), k + 1) - 1)

\* a piece without the blanks around it: the part t of it that neither
\* starts nor ends with a blank and has only blanks before and after
Trimmed(piece) ==
    CHOOSE t \in {SubSeq(piece, i, j) : i \in 1..(Len(piece) + 1), j \in 0..Len(piece)} :
        /\ t # <<>> => t[1] # " " /\ t[Len(t)] # " "
        /\ \E i \in 1..(Len(piece) + 1), j \in 0..Len(piece) :
              /\ t = SubSeq(piece, i, j)
              /\ \A k \in 1..Len(piece) : (k < i \/ k > j) => piece[k] = " "

\* the items of a text: its pieces, trimmed, without the empty ones
Items(text) ==
    SelectSeq([k \in 1..(Cardinality(Bounds(text)) - 1) |-> Trimmed(Piece(text, k))],
              LAMBDA x : x # <<>>)

\* what the pipeline is to receive for an optional list option
ItemsOrNone(text) == IF text \in {NoneStr, <<>>} THEN NoneList ELSE Items(text)

\* C17: the command passes the pipeline, for each of controls, media,
\* media-spend, organic-media and non-media-treatments, the list of the items
\* of the option in input order, each without surrounding whitespace, empty
\* items left out; an optional option that is omitted or given as the empty
\* text is passed as None.
C17_ListOptionsParsed ==
    cli_call.called =>
        /\ cli_call.controls = Items(cli_args.controls)
        /\ cli_call.media = ItemsOrNone(cli_args.media)
        /\ cli_call.media_spend = ItemsOrNone(cli_args.media_spend)
        /\ cli_call.organic_media = ItemsOrNone(cli_args.organic_media)
        /\ cli_call.non_media_treatments = ItemsOrNone(cli_args.non_media_treatments)
        /\ \A o \in {"media", "media_spend", "organic_media", "non_media_treatments"} :
              cli_args[o] \in {NoneStr, <<>>} => cli_call[o] = NoneList

\* --media 'b,a' with an empty --media-spend: the pipeline is called with
\* the two items in input order and None
C17_Witness ==
    /\ cli_args.media = <<"b", ",", "a">>
    /\ cli_args.media_spend = <<>>
    /\ cli_call.called
    /\ cli_call.media = <<<<"b">>, <<"a">>>>
    /\ cli_call.media_spend = NoneList

(***************************************************************************)
(* The main.py entry point.  An optional integer is a sequence of length   *)
(* at most one: <<>> is None.                                              *)
(***************************************************************************)
MaxArg == 1

N_DRAWS == 100
N_CHAINS == 7
N_ADAPT == 500
N_BURNIN == 500
N_KEEP == 1000

OptArgs == {<<>>} \cup {<<n>> : n \in 1..MaxArg}

\* --file: not given, or what the named file holds: a mapping PipelineConfig
\* accepts, one it rejects, nothing (safe_load gives None), or no such file
Files == {None, "valid", "invalid", "empty", "missing"}

Args == [file : Files, draws : OptArgs, chains : OptArgs, adapt : OptArgs,
         burnin : OptArgs, keep : OptArgs, log_system_metrics : BOOLEAN]

Unbound == [bound |-> FALSE, n_draws |-> <<>>, n_chains |-> <<>>, n_adapt |-> <<>>,
            n_burnin |-> <<>>, n_keep |-> <<>>]

\* PipelineConfig(): every field at its default
DefaultPipelineConfig ==
    [bound |-> TRUE, n_draws |-> <<N_DRAWS>>, n_chains |-> <<N_CHAINS>>,
     n_adapt |-> <<N_ADAPT>>, n_burnin |-> <<N_BURNIN>>, n_keep |-> <<N_KEEP>>]

Outcome(cfg, e, log) == [cfg |-> cfg, exc |-> e, log |-> log]

\* a handler that falls back to the default configuration
config_from_file_fallback(file) ==
    CASE file = "missing" -> Outcome(Unbound, "FileNotFoundError", <<>>)
      [] file = "empty" -> Outcome(Unbound, "TypeError", <<>>)
      [] file = "invalid" ->
            Outcome(DefaultPipelineConfig, "none", <<"Invalid configuration file">>)
      [] file = "valid" -> Outcome(DefaultPipelineConfig, "none", <<>>)

\* with args.file.open("r") as file: try: pipeline_config = PipelineConfig(
\* **yaml.safe_load(file)) except ValidationError: logger.exception(...)
config_from_file(file) ==
    CASE file = "missing" -> Outcome(Unbound, "FileNotFoundError", <<>>)
      [] file = "empty" -> Outcome(Unbound, "TypeError", <<>>)
      [] file = "invalid" -> Outcome(Unbound, "none", <<"Invalid configuration file">>)
      [] file = "valid" -> Outcome(DefaultPipelineConfig, "none", <<>>)

\* PipelineConfig(run_name=..., train_config=TrainConfig(PriorConfig(n_draws=
\* args.draws), PosteriorConfig(...))): an int field given None is rejected
config_from_args(a) ==
    IF <<>> \in {a.draws, a.chains, a.adapt, a.burnin, a.keep}
    THEN Outcome(Unbound, "ValidationError", <<>>)
    ELSE Outcome([bound |-> TRUE, n_draws |-> a.draws, n_chains |-> a.chains,
                  n_adapt |-> a.adapt, n_burnin |-> a.burnin, n_keep |-> a.keep],
                 "none", <<>>)

\* an exception nothing catches ends the process with exit code 1
Uncaught == <<1>>

\* if args.file: ... else: ...
MainConfig ==
    /\ main_pc = "config"
    /\ LET r == IF args.file # None THEN config_from_file(args.file)
                ELSE config_from_args(args)
       IN  /\ pipeline_config' = r.cfg
           /\ main_log' = main_log \o r.log
           /\ IF r.exc = "none"
              THEN main_pc' = "system_metrics" /\ UNCHANGED main_exit
              ELSE main_pc' = "exited" /\ main_exit' = Uncaught
    /\ UNCHANGED <<args, main_environ, pipeline_called>>
    /\ UNCHANGED notMain

\* if args.log_system_metrics: ...
MainSystemMetrics ==
    /\ main_pc = "system_metrics"
    /\ IF args.log_system_metrics
       THEN /\ main_log' = Append(main_log, "Enabling MLflow system metrics logging")
            /\ main_environ' = main_environ \cup {"MLFLOW_ENABLE_SYSTEM_METRICS_LOGGING"}
       ELSE UNCHANGED <<main_log, main_environ>>
    /\ main_pc' = "pipeline"
    /\ UNCHANGED <<args, pipeline_config, main_exit, pipeline_called>>
    /\ UNCHANGED notMain

\* pipeline(pipeline_config): the name is looked up first (NameError when it
\* was never bound), then pipeline runs and returns or raises
MainPipeline ==
    /\ main_pc = "pipeline"
    /\ IF ~pipeline_config.bound
       THEN /\ main_exit' = Uncaught
            /\ UNCHANGED pipeline_called
       ELSE /\ pipeline_called' = TRUE
            /\ \E ok \in BOOLEAN : main_exit' = IF ok THEN <<0>> ELSE Uncaught
    /\ main_pc' = "exited"
    /\ UNCHANGED <<args, pipeline_config, main_log, main_environ>>
    /\ UNCHANGED notMain

InitMain ==
    /\ args \in Args
    /\ main_pc = "config"
    /\ pipeline_config = Unbound
    /\ main_log = <<>>
    /\ main_environ = {}
    /\ main_exit = <<>>
    /\ pipeline_called = FALSE

NextMain ==
    \/ MainConfig
    \/ MainSystemMetrics
    \/ MainPipeline

\* C6: when --file names a file whose content fails PipelineConfig validation,
\* the failure is reported, pipeline is never called and the process exits
\* non-zero.
C6_InvalidFileExits ==
    args.file = "invalid" =>
        /\ ~pipeline_called
        /\ main_pc # "config" => "Invalid configuration file" \in Range(main_log)
        /\ main_pc = "exited" => main_exit # <<>> /\ main_exit # <<0>>

\* the entry point has exited on a configuration file that fails validation
C6_Witness ==
    /\ args.file = "invalid"
    /\ main_pc = "exited"
    /\ "Invalid configuration file" \in Range(main_log)

\* C15 (as stated): run without --file, the entry point gives every omitted
\* sampling flag its documented default (n_draws=100, n_chains=7, n_adapt=500,
\* n_burnin=500, n_keep=1000) and every given flag its value.
C15_OmittedFlagsTakeDefaults ==
    (args.file = None /\ main_pc # "config") =>
        /\ pipeline_config.bound
        /\ pipeline_config.n_draws = (IF args.draws = <<>> THEN <<100>> ELSE args.draws)
        /\ pipeline_config.n_chains = (IF args.chains = <<>> THEN <<7>> ELSE args.chains)
        /\ pipeline_config.n_adapt = (IF args.adapt = <<>> THEN <<500>> ELSE args.adapt)
        /\ pipeline_config.n_burnin = (IF args.burnin = <<>> THEN <<500>> ELSE args.burnin)
        /\ pipeline_config.n_keep = (IF args.keep = <<>> THEN <<1000>> ELSE args.keep)

(***************************************************************************)
(* TrainConfig and train_task.                                             *)
(***************************************************************************)
MaxCount == 1

\* ModelSpecConfig.max_lag's default, which is also ModelSpec's own
DefaultMaxLag == 8

Counts == (0 - 1)..MaxCount

RawTrainConfig ==
    [n_draws : Counts, n_chains : Counts, n_adapt : Counts, n_burnin : Counts,
     n_keep : Counts, max_tree_depth : Counts,
     media_effects_dist : {"normal", "log_normal"},
     hill_before_adstock : BOOLEAN,
     max_lag : {<<>>, <<DefaultMaxLag>>} \cup {<<n>> : n \in Counts}]

\* the constraints the fields of SamplePriorConfig, SamplePosteriorConfig and
\* ModelSpecConfig declare: n_draws gt=0, max_tree_depth ge=0, max_lag ge=0
TrainConfig_accepts(r) ==
    /\ r.n_draws > 0
    /\ r.max_tree_depth >= 0
    /\ r.max_lag # <<>> => r.max_lag[1] >= 0
    /\ r.media_effects_dist \in {"normal", "log_normal"}

NoSpec == [built |-> FALSE, media_effects_dist |-> "", hill_before_adstock |-> FALSE,
           max_lag |-> <<>>]

\* spec.ModelSpec(prior=prior, media_effects_dist=..., hill_before_adstock=...):
\* max_lag is not passed and stays at ModelSpec's default
ModelSpec(c) ==
    [built |-> TRUE, media_effects_dist |-> c.media_effects_dist,
     hill_before_adstock |-> c.hill_before_adstock, max_lag |-> <<DefaultMaxLag>>]

\* mmm.sample_prior(**train_config.sample_prior.model_dump(), seed=123)
sample_prior_call(c) == [fn |-> "sample_prior", n_draws |-> c.n_draws, seed |-> 123]

\* the posterior call with the seed of the prior call
sample_posterior_seed_123(c) ==
    [fn |-> "sample_posterior", n_chains |-> c.n_chains, n_adapt |-> c.n_adapt,
     n_burnin |-> c.n_burnin, n_keep |-> c.n_keep,
     max_tree_depth |-> c.max_tree_depth, seed |-> 123]

\* mmm.sample_posterior(**train_config.sample_posterior.model_dump(), seed=1)
sample_posterior_call(c) ==
    [fn |-> "sample_posterior", n_chains |-> c.n_chains, n_adapt |-> c.n_adapt,
     n_burnin |-> c.n_burnin, n_keep |-> c.n_keep,
     max_tree_depth |-> c.max_tree_depth, seed |-> 1]

\* TrainConfig(**raw)
ValidateTrainConfig ==
    /\ train_pc = "validate"
    /\ train_pc' = IF TrainConfig_accepts(raw) THEN "model_spec" ELSE "rejected"
    /\ UNCHANGED <<raw, model_spec, calls>>
    /\ UNCHANGED notTrain

\* train_task up to the construction of the model
BuildModel ==
    /\ train_pc = "model_spec"
    /\ model_spec' = ModelSpec(raw)
    /\ train_pc' = "sample_prior"
    /\ UNCHANGED <<raw, calls>>
    /\ UNCHANGED notTrain

SamplePrior ==
    /\ train_pc = "sample_prior"
    /\ calls' = Append(calls, sample_prior_call(raw))
    /\ \E ok \in BOOLEAN : train_pc' = IF ok THEN "sample_posterior" ELSE "raised"
    /\ UNCHANGED <<raw, model_spec>>
    /\ UNCHANGED notTrain

SamplePosterior ==
    /\ train_pc = "sample_posterior"
    /\ calls' = Append(calls, sample_posterior_call(raw))
    /\ \E ok \in BOOLEAN : train_pc' = IF ok THEN "returned" ELSE "raised"
    /\ UNCHANGED <<raw, model_spec>>
    /\ UNCHANGED notTrain

InitTrain ==
    /\ raw \in RawTrainConfig
    /\ train_pc = "validate"
    /\ model_spec = NoSpec
    /\ calls = <<>>

NextTrain ==
    \/ ValidateTrainConfig
    \/ BuildModel
    \/ SamplePrior
    \/ SamplePosterior

\* C7 (as stated): a TrainConfig with n_draws, n_chains, n_adapt, n_burnin,
\* n_keep or max_tree_depth <= 0 is rejected, so no sampling routine is called
\* with a non-positive count.
C7_CountsPositive ==
    train_pc \notin {"validate", "rejected"} =>
        /\ raw.n_draws > 0 /\ raw.n_chains > 0 /\ raw.n_adapt > 0
        /\ raw.n_burnin > 0 /\ raw.n_keep > 0 /\ raw.max_tree_depth > 0

\* C8 (as stated): the model specification carries media_effects_dist,
\* max_lag and hill_before_adstock as configured.
C8_ModelSpecCarriesSettings ==
    model_spec.built =>
        /\ model_spec.media_effects_dist = raw.media_effects_dist
        /\ model_spec.hill_before_adstock = raw.hill_before_adstock
        /\ model_spec.max_lag = raw.max_lag

\* C20: train_task invokes prior sampling and then posterior sampling, once
\* each, with the seeds 123 and 1 whatever the configuration; it returns only
\* after posterior sampling returned; and when prior sampling raises,
\* posterior sampling is not invoked.
C20_PriorThenPosterior ==
    /\ [](/\ Len(calls) <= 2
          /\ Len(calls) >= 1 => calls[1].fn = "sample_prior" /\ calls[1].seed = 123
          /\ Len(calls) = 2 => calls[2].fn = "sample_posterior" /\ calls[2].seed = 1
          /\ train_pc = "sample_posterior" => Len(calls) = 1
          /\ train_pc = "returned" => Len(calls) = 2)
    /\ [][train_pc = "sample_prior" /\ train_pc' = "raised" => Len(calls') = 1]_vars
    /\ [][train_pc = "raised" => calls' = calls]_vars

\* train_task has returned after both calls
C20_Witness ==
    /\ train_pc = "returned"
    /\ calls = <<sample_prior_call(raw), sample_posterior_call(raw)>>
    /\ raw.n_chains = MaxCount

(***************************************************************************)
(* RoiMConfig and the prior distribution of roi_m.  A float is the text of *)
(* its value; a field that may be omitted is a sequence of length at most  *)
(* one.                                                                    *)
(***************************************************************************)
_ROI_MU == "0.2"

_ROI_SIGMA == "0.9"

Floats == {"0.2", "0.5", "0.9", "1.5"}

OptFloats == {<<>>} \cup {<<x>> : x \in Floats}

\* RoiMConfig() with no argument, and RoiMConfig(distribution={...}) with
\* any of type, mu and sigma given; "beta" is a type no member declares
NoRoiM == [configured |-> FALSE, type |-> <<>>, mu |-> <<>>, sigma |-> <<>>]

RoiMRaw ==
    {NoRoiM} \cup
    [configured : {TRUE},
     type : {<<>>, <<"log_normal">>, <<"normal">>, <<"beta">>},
     mu : OptFloats, sigma : OptFloats]

\* Distribution = LogNormalDistributionConfig | NormalDistributionConfig
Distribution == <<"log_normal", "normal">>

NoDistribution == [type |-> None, mu |-> None, sigma |-> None]

\* a member of the union taking the given values: its type is a Literal of
\* its own name with that name as default, mu and sigma default to _ROI_MU
\* and _ROI_SIGMA
member_accepts(member, d) == d.type = <<>> \/ d.type = <<member>>

member_of(member, d) ==
    [type |-> member,
     mu |-> IF d.mu = <<>> THEN _ROI_MU ELSE d.mu[1],
     sigma |-> IF d.sigma = <<>> THEN _ROI_SIGMA ELSE d.sigma[1]]

\* the field distribution: its default LogNormalDistributionConfig(), or the
\* first member of the union that accepts the values, or a validation error
distribution(d) ==
    IF ~d.configured THEN member_of("log_normal", NoRoiM)
    ELSE IF \E i \in 1..Len(Distribution) : member_accepts(Distribution[i], d)
         THEN member_of(
                Distribution[CHOOSE i \in 1..Len(Distribution) :
                                /\ member_accepts(Distribution[i], d)
                                /\ \A j \in 1..(i - 1) :
                                      ~member_accepts(Distribution[j], d)], d)
         ELSE NoDistribution

NoPrior == [family |-> None, loc |-> None, scale |-> None, name |-> None]

\* the return annotation of RoiMConfig.to_tfp taken at its word
to_tfp_log_normal(c, name) ==
    [family |-> "LogNormal", loc |-> c.mu, scale |-> c.sigma, name |-> name]

\* LogNormalDistributionConfig.to_tfp and NormalDistributionConfig.to_tfp:
\* tfp.LogNormal(loc=self.mu, scale=self.sigma, name=name), tfp.Normal(...)
to_tfp(c, name) ==
    [family |-> IF c.type = "log_normal" THEN "LogNormal" ELSE "Normal",
     loc |-> c.mu, scale |-> c.sigma, name |-> name]

\* RoiMConfig(**raw)
ValidateRoiM ==
    /\ prior_pc = "validate"
    /\ roi_m' = distribution(roi_m_raw)
    /\ prior_pc' = IF roi_m' = NoDistribution THEN "rejected" ELSE "to_tfp"
    /\ UNCHANGED <<roi_m_raw, roi_m_prior>>
    /\ UNCHANGED notPrior

\* RoiMConfig.to_tfp, as train_task calls it for PriorDistribution(roi_m=...)
RoiMToTfp ==
    /\ prior_pc = "to_tfp"
    /\ roi_m_prior' = to_tfp(roi_m, "roi_m")
    /\ prior_pc' = "built"
    /\ UNCHANGED <<roi_m_raw, roi_m>>
    /\ UNCHANGED notPrior

InitPrior ==
    /\ roi_m_raw \in RoiMRaw
    /\ prior_pc = "validate"
    /\ roi_m = NoDistribution
    /\ roi_m_prior = NoPrior

NextPrior ==
    \/ ValidateRoiM
    \/ RoiMToTfp

\* C21: the prior built for roi_m has the family named by the configured
\* type, LogNormal for 'log_normal' and Normal for 'normal', with loc = mu,
\* scale = sigma and the name roi_m; with no configuration it is LogNormal
\* with mu 0.2 and sigma 0.9.
C21_PriorFamilyFollowsType ==
    prior_pc = "built" =>
        /\ roi_m_prior.name = "roi_m"
        /\ roi_m_raw.type = <<"log_normal">> => roi_m_prior.family = "LogNormal"
        /\ roi_m_raw.type = <<"normal">> => roi_m_prior.family = "Normal"
        /\ roi_m_prior.loc = roi_m.mu /\ roi_m_prior.scale = roi_m.sigma
        /\ roi_m_raw.mu # <<>> => roi_m_prior.loc = roi_m_raw.mu[1]
        /\ roi_m_raw.sigma # <<>> => roi_m_prior.scale = roi_m_raw.sigma[1]
        /\ ~roi_m_raw.configured =>
              roi_m_prior = [family |-> "LogNormal", loc |-> "0.2", scale |-> "0.9",
                             name |-> "roi_m"]

\* a normal prior with its own mu and the default sigma has been built
C21_Witness ==
    /\ prior_pc = "built"
    /\ roi_m_raw.type = <<"normal">>
    /\ roi_m_raw.mu = <<"1.5">>
    /\ roi_m_raw.sigma = <<>>
    /\ roi_m_prior = [family |-> "Normal", loc |-> "1.5", scale |-> "0.9",
                      name |-> "roi_m"]

(***************************************************************************)
(* get_logger of the training package.  Every module of the package calls  *)
(* it at import with its own name; all calls share the logger 'training'.  *)
(* The root logger is the hosting process's: it has the handlers and the   *)
(* level the process gave it before the package was imported.              *)
(***************************************************************************)
MaxGetCalls == 3
MaxRootHandlers == 1
MaxEmitted == 2

\* the names the modules of the package pass: their __name__
LoggerNames == {"training.main", "training.tasks.load", "training.tasks.train"}

LevelNo(l) == CASE l = "NOTSET" -> 0 [] l = "INFO" -> 20 [] l = "WARNING" -> 30

\* the handler get_logger builds: a StreamHandler with the package's format
StreamHandler ==
    [by |-> "get_logger",
     formatter |-> "%(asctime)s - %(name)s - %(levelname)s - %(message)s"]

hasHandlers_never(h, r) == FALSE

\* Logger.hasHandlers of 'training': a handler on the logger itself or, as
\* the logger propagates, on the root logger
hasHandlers(h, r) == Len(h) > 0 \/ r > 0

\* get_logger on the logger state l, with r handlers on the root logger
get_logger(l, r) ==
    IF ~hasHandlers(l.handlers, r)
    THEN [handlers |-> Append(l.handlers, StreamHandler), level |-> "INFO"]
    ELSE l

GetLogger ==
    /\ get_calls < MaxGetCalls
    /\ \E name \in LoggerNames :
        LET l == get_logger([handlers |-> logger_handlers, level |-> logger_level],
                            root_handlers)
        IN  /\ logger_handlers' = l.handlers
            /\ logger_level' = l.level
            /\ children' = children \cup {name}
    /\ get_calls' = get_calls + 1
    /\ UNCHANGED <<root_handlers, root_level, emitted>>
    /\ UNCHANGED notLogger

\* the level that decides for a child of 'training': the child's own level is
\* NOTSET, so the first level set on the way up to the root
getEffectiveLevel == IF logger_level # "NOTSET" THEN logger_level ELSE root_level

\* logger.info(...) on a child get_logger returned: the record goes to every
\* handler of 'training' and of the root logger when INFO is enabled
Emit ==
    /\ Len(emitted) < MaxEmitted
    /\ \E name \in children :
        LET enabled == LevelNo("INFO") >= LevelNo(getEffectiveLevel)
        IN  emitted' = Append(emitted,
                [name |-> name,
                 by_get_logger |-> IF enabled
                                   THEN Cardinality({i \in DOMAIN logger_handlers :
                                            logger_handlers[i].by = "get_logger"})
                                   ELSE 0,
                 by_root |-> IF enabled THEN root_handlers ELSE 0])
    /\ UNCHANGED <<logger_handlers, logger_level, root_handlers, root_level,
                   children, get_calls>>
    /\ UNCHANGED notLogger

InitLogger ==
    /\ logger_handlers = <<>>
    /\ logger_level = "NOTSET"
    /\ root_handlers \in 0..MaxRootHandlers
    /\ root_level \in {"WARNING", "INFO"}
    /\ children = {}
    /\ get_calls = 0
    /\ emitted = <<>>

NextLogger ==
    \/ GetLogger
    \/ Emit

SourceTypes == {"csv", "parquet", "bigquery"}

LoadConfigs ==
    [source : [type : SourceTypes, name : {None, "sales"},
               path : {"data.csv", "store/data"}],
     kpi_type : {"non_revenue", "revenue"},
     media_to_channel : {None, "channels"}]

Result(called, ret) == [calls |-> called, ret |-> ret]

\* a load_task that hands every source to the CSV loader
load_task_csv_always(c, ok) ==
    Result(<<[csv_path |-> c.source.path, kpi_type |-> c.kpi_type,
              media_to_channel |-> c.media_to_channel]>>,
           IF ok THEN "InputData" ELSE "Exception")

\* if load_config.source.type == "csv": return CsvDataLoader(...).load();
\* raise NotImplementedError(msg).  ok: whether the loader returned
load_task(c, ok) ==
    IF c.source.type = "csv"
    THEN Result(<<[csv_path |-> c.source.path, kpi_type |-> c.kpi_type,
                   media_to_channel |-> c.media_to_channel]>>,
                IF ok THEN "InputData" ELSE "Exception")
    ELSE Result(<<>>, "NotImplementedError")

\* if source_config.type == "csv": return log_csv_dataset(path, name=name);
\* raise NotImplementedError(msg).  ok: whether log_csv_dataset returned
log_dataset(source_config, ok) ==
    IF source_config.type = "csv"
    THEN Result(<<[url |-> source_config.path, name |-> source_config.name]>>,
                IF ok THEN "returned" ELSE "Exception")
    ELSE Result(<<>>, "NotImplementedError")

LoadTask ==
    /\ load_ret = "pending"
    /\ \E ok \in BOOLEAN :
         LET r == load_task(load_config, ok)
         IN  /\ loader_calls' = loader_calls \o r.calls
             /\ load_ret' = r.ret
    /\ UNCHANGED <<load_config, dataset_calls, log_dataset_ret>>
    /\ UNCHANGED notLoad

LogDataset ==
    /\ log_dataset_ret = "pending"
    /\ \E ok \in BOOLEAN :
         LET r == log_dataset(load_config.source, ok)
         IN  /\ dataset_calls' = dataset_calls \o r.calls
             /\ log_dataset_ret' = r.ret
    /\ UNCHANGED <<load_config, loader_calls, load_ret>>
    /\ UNCHANGED notLoad

InitLoad ==
    /\ load_config \in LoadConfigs
    /\ loader_calls = <<>>
    /\ load_ret = "pending"
    /\ dataset_calls = <<>>
    /\ log_dataset_ret = "pending"

NextLoad ==
    \/ LoadTask
    \/ LogDataset

PipeIdle ==
    /\ config = None
    /\ env = None
    /\ pc = "idle"
    /\ data_ = None
    /\ model_ = None
    /\ step = "load"
    /\ records = <<>>
    /\ artifacts = <<>>
    /\ tracking_uri = None
    /\ active_run = "none"
    /\ autolog_metrics = None
    /\ system_metrics = FALSE
    /\ started = <<>>
    /\ completed = {}
    /\ exc = "none"

CfgIdle ==
    /\ sources = [s \in SourceNames |-> EmptyDict]
    /\ resolved = Unresolved
    /\ populated = 0

CliIdle ==
    /\ cli_args = BaseArgs
    /\ cli_pc = "idle"
    /\ cli_out = <<>>
    /\ cli_exit = <<>>
    /\ cli_call = NotCalled
    /\ InitTraining

MainIdle ==
    /\ args = [file |-> None, draws |-> <<>>, chains |-> <<>>, adapt |-> <<>>,
               burnin |-> <<>>, keep |-> <<>>, log_system_metrics |-> FALSE]
    /\ main_pc = "idle"
    /\ pipeline_config = Unbound
    /\ main_log = <<>>
    /\ main_environ = {}
    /\ main_exit = <<>>
    /\ pipeline_called = FALSE

LoadIdle ==
    /\ load_config = [source |-> [type |-> "csv", name |-> None, path |-> "data.csv"],
                      kpi_type |-> "non_revenue", media_to_channel |-> None]
    /\ loader_calls = <<>>
    /\ load_ret = "idle"
    /\ dataset_calls = <<>>
    /\ log_dataset_ret = "idle"

LoggerIdle ==
    /\ logger_handlers = <<>>
    /\ logger_level = "NOTSET"
    /\ root_handlers = 0
    /\ root_level = "WARNING"
    /\ children = {}
    /\ get_calls = 0
    /\ emitted = <<>>

PriorIdle ==
    /\ roi_m_raw = NoRoiM
    /\ prior_pc = "idle"
    /\ roi_m = NoDistribution
    /\ roi_m_prior = NoPrior

TrainIdle ==
    /\ raw = [n_draws |-> 1, n_chains |-> 1, n_adapt |-> 1, n_burnin |-> 1,
              n_keep |-> 1, max_tree_depth |-> 1, media_effects_dist |-> "log_normal",
              hill_before_adstock |-> FALSE, max_lag |-> <<>>]
    /\ train_pc = "idle"
    /\ model_spec = NoSpec
    /\ calls = <<>>

\* run_pipeline on every configuration and environment
Init == InitPipe /\ CfgIdle /\ CliIdle /\ MainIdle /\ TrainIdle /\ LoadIdle
    /\ PriorIdle /\ LoggerIdle

Next == NextPipe

Spec == Init /\ [][Next]_vars

\* the stage methods of one Pipeline object in every order
InitStages == InitObject /\ CfgIdle /\ CliIdle /\ MainIdle /\ TrainIdle
    /\ LoadIdle
    /\ PriorIdle /\ LoggerIdle

SpecStages == InitStages /\ [][NextObject]_vars

\* PipelineConfig() over every population of the four sources
InitConfig == PipeIdle /\ InitCfg /\ CliIdle /\ MainIdle /\ TrainIdle
    /\ LoadIdle
    /\ PriorIdle /\ LoggerIdle

SpecConfig == InitConfig /\ [][NextCfg]_vars

\* cli() on every environment and sparse population of the sources
InitEntry == InitCliEntry /\ CliIdle /\ MainIdle /\ TrainIdle /\ LoadIdle
    /\ PriorIdle /\ LoggerIdle

SpecEntry == InitEntry /\ [][NextCliEntry]_vars

\* the train command, and main of the training package under it, on every
\* command line of MediaArgs and OtherArgs
InitTrainCommand == PipeIdle /\ CfgIdle /\ InitCli /\ MainIdle /\ TrainIdle
   
    /\ LoadIdle /\ PriorIdle /\ LoggerIdle

SpecCli == InitTrainCommand /\ [][NextCli]_vars

\* the main.py entry point on every command line
InitEntryPoint == PipeIdle /\ CfgIdle /\ CliIdle /\ InitMain /\ TrainIdle
   
    /\ LoadIdle /\ PriorIdle /\ LoggerIdle

SpecMain == InitEntryPoint /\ [][NextMain]_vars

\* TrainConfig validation and train_task on every candidate configuration
InitTrainTask == PipeIdle /\ CfgIdle /\ CliIdle /\ MainIdle /\ InitTrain
    /\ LoadIdle
    /\ PriorIdle /\ LoggerIdle

SpecTrain == InitTrainTask /\ [][NextTrain]_vars

\* load_task and log_dataset on every LoadConfig
InitLoadTask == PipeIdle /\ CfgIdle /\ CliIdle /\ MainIdle /\ TrainIdle
    /\ InitLoad
    /\ PriorIdle /\ LoggerIdle

SpecLoad == InitLoadTask /\ [][NextLoad]_vars

\* RoiMConfig validation and to_tfp on every candidate configuration
InitRoiM == PipeIdle /\ CfgIdle /\ CliIdle /\ MainIdle /\ TrainIdle /\ LoadIdle
    /\ InitPrior /\ LoggerIdle

SpecPrior == InitRoiM /\ [][NextPrior]_vars

\* get_logger calls and records logged through the children they return
InitGetLogger == PipeIdle /\ CfgIdle /\ CliIdle /\ MainIdle /\ TrainIdle /\ LoadIdle
    /\ PriorIdle /\ InitLogger

SpecLogger == InitGetLogger /\ [][NextLogger]_vars

====
